---- MODULE Spec2Model ----
(***************************************************************************)
(* NLMS adaptive FIR filter: the C engine (C/AdaptiveFilter.c, circular    *)
(* index over pBuffer) and the Matlab prototype (Matlab/AdaptiveFir.m,     *)
(* shift register), driven in lockstep by the same calls.                  *)
(*                                                                         *)
(* Numbers.  A double is modelled by an exact extended rational <<n, d>>:  *)
(* d > 0 and gcd(|n|, d) = 1 for a finite value, <<1,0>> for +Inf,         *)
(* <<-1,0>> for -Inf and <<0,0>> for NaN, with the IEEE-754 rules for the  *)
(* special values (x/0 = Inf, 0/0 = NaN, Inf*0 = NaN, Inf-Inf = NaN).      *)
(* Rounding is not modelled.                                               *)
(*                                                                         *)
(* Units.  Signal samples (input, desired, error, output) are counted in   *)
(* units of 1e-5, so energies and the regularization are counted in units  *)
(* of 1e-10: the value <<1,1>> of a regularization stands for 1.0E-10.     *)
(* Weights and the step size are dimensionless.  The NLMS update           *)
(* StepSize/(Regularization + sn) * Error * sample is invariant under this *)
(* choice of unit.                                                         *)
(***************************************************************************)
EXTENDS Integers, Sequences, FiniteSets, TLC

VARIABLES Adata,   \* the C engine's AfData struct
          output,  \* value returned by the last C call
          oob,     \* some store of the C engine fell outside pBuffer
          trapped, \* the process was terminated by such a store
          af,      \* the Matlab AdaptiveFir object
          mOutput, \* value returned by the last Matlab call
          mThrew,  \* the last Matlab call (or the constructor) raised an error
          implicitExpansion, \* Matlab release: plus expands compatible sizes
          hist,    \* inputs supplied so far, newest first
          w0,      \* the weights handed over at construction
          last,    \* the call that produced the current state
          idx0     \* the BufferIdx handed over at construction

vars == <<Adata, output, oob, trapped, af, mOutput, mThrew, implicitExpansion,
          hist, w0, last, idx0>>

\* ------------------------------------------------------------- bounds
MaxLen == 3
MaxCalls == 3
\* how far beyond Length the initial BufferIdx may lie (every value >= Length
\* is reset to 0 by the first wrap, before it is used or incremented)
MaxOver == 1

\* ------------------------------------------------- extended rationals
Zero == <<0, 1>>
One == <<1, 1>>
NaN == <<0, 0>>

Abs(n) == IF n < 0 THEN -n ELSE n
Sgn(n) == IF n < 0 THEN -1 ELSE IF n > 0 THEN 1 ELSE 0

RECURSIVE GCD(_, _)
GCD(a, b) == IF b = 0 THEN a ELSE GCD(b, a % b)

\* the canonical representative of n/d
Norm(n, d) ==
    IF d = 0 THEN <<Sgn(n), 0>>
    ELSE LET g == GCD(Abs(n), Abs(d))
         IN  <<(Sgn(d) * n) \div g, Abs(d) \div g>>

Num(k) == <<k, 1>>
IsFinite(x) == x[2] # 0
IsNaN(x) == x = NaN
Neg(x) == <<-x[1], x[2]>>

\* double multiplication: Inf*0 and NaN*x give NaN
Mul(x, y) == Norm(x[1] * y[1], x[2] * y[2])

\* double addition: Inf + (-Inf) and NaN + x give NaN
Add(x, y) ==
    IF x[2] = 0 /\ y[2] = 0 THEN (IF x = y THEN x ELSE NaN)
    ELSE IF x[2] = 0 THEN x
    ELSE IF y[2] = 0 THEN y
    ELSE LET g == GCD(x[2], y[2])
             l == (x[2] \div g) * y[2]
         IN  Norm(x[1] * (l \div x[2]) + y[1] * (l \div y[2]), l)

Sub(x, y) == Add(x, Neg(y))

\* double division; a zero divisor is +0 (no negative zero arises: every
\* divisor is Regularization + sn with sn a sum of squares started at +0)
Div(x, y) ==
    IF IsNaN(x) \/ IsNaN(y) THEN NaN
    ELSE IF y[2] = 0 THEN (IF x[2] = 0 THEN NaN ELSE Zero)
    ELSE IF y[1] = 0 THEN <<Sgn(x[1]), 0>>
    ELSE Mul(x, <<Sgn(y[1]) * y[2], Abs(y[1])>>)

\* ---------------------------------------------------- the C engine
\* C arrays are 0-based: element k of a C array is element k+1 of the sequence
At(arr, k) == arr[k + 1]
Store(arr, k, v) == [arr EXCEPT ![k + 1] = v]

\* An access arr[k] is inside the array iff 0 <= k < its number of elements.
\* An access outside it is undefined: it is reported (oob) by the function
\* that makes it; a load then has no defined value, which NaN stands for,
\* and a store does not reach the array.
InRange(arr, k) == 0 <= k /\ k < Len(arr)
Load(arr, k) == IF InRange(arr, k) THEN At(arr, k) ELSE NaN
Put(arr, k, v) == IF InRange(arr, k) THEN Store(arr, k, v) ELSE arr

\* mutant of WrapIndex: the comparison is > instead of >=
WrapIndexOffByOne(pData) ==
    IF pData.BufferIdx > pData.Length
    THEN [pData EXCEPT !.BufferIdx = 0]
    ELSE pData

\* "if (pData->BufferIdx >= pData->Length) pData->BufferIdx = 0;"
WrapIndex(pData) ==
    IF pData.BufferIdx >= pData.Length
    THEN [pData EXCEPT !.BufferIdx = 0]
    ELSE pData

\* for (i = 0; i < length; i++) output += pInput[i]*pInput[i];
RECURSIVE SquaredNormLoop(_, _, _, _)
SquaredNormLoop(pInput, length, i, out) ==
    IF i < length
    THEN SquaredNormLoop(pInput, length, i + 1,
                         Add(out, Mul(Load(pInput, i), Load(pInput, i))))
    ELSE out

\* mutant of SquaredNorm: the accumulation starts at element 1
SquaredNormSkipFirst(pInput, length) == SquaredNormLoop(pInput, length, 1, Zero)

SquaredNorm(pInput, length) == SquaredNormLoop(pInput, length, 0, Zero)

\* the body of AdaptWeights' loop, from index i down to 0; oob reports an
\* access of pWeights or pBuffer outside the array
RECURSIVE AdaptWeightsLoop(_, _, _)
AdaptWeightsLoop(pData, normStepSize, i) ==
    IF i >= 0
    THEN LET d1 == WrapIndex(pData)
             d2 == [d1 EXCEPT
                      !.pWeights = Put(d1.pWeights, i,
                          Add(Load(d1.pWeights, i),
                              Mul(Mul(normStepSize, d1.Error),
                                  Load(d1.pBuffer, d1.BufferIdx)))),
                      !.BufferIdx = d1.BufferIdx + 1]
             r  == AdaptWeightsLoop(d2, normStepSize, i - 1)
         IN  [pData |-> r.pData,
              oob |-> \/ r.oob
                      \/ ~InRange(d1.pWeights, i)
                      \/ ~InRange(d1.pBuffer, d1.BufferIdx)]
    ELSE [pData |-> pData, oob |-> FALSE]

\* "i = pData->Length - 1" is -1 for Length = 0 (unsigned wrap-around, then
\* the usual conversion to int), so the loops do not run for an empty filter
AdaptWeights(pData) ==
    LET sn == SquaredNorm(pData.pBuffer, pData.Length)
        normStepSize == Div(pData.StepSize, Add(pData.Regularization, sn))
        r  == AdaptWeightsLoop(pData, normStepSize, pData.Length - 1)
    IN  [pData |-> r.pData,
         oob |-> r.oob \/ pData.Length > Len(pData.pBuffer)]

\* the inner-product loop of Filter, from index i down to 0
RECURSIVE FilterLoop(_, _, _)
FilterLoop(pData, out, i) ==
    IF i >= 0
    THEN LET d1 == WrapIndex(pData)
             d2 == [d1 EXCEPT !.BufferIdx = d1.BufferIdx + 1]
             r  == FilterLoop(d2,
                              Add(out, Mul(Load(d1.pWeights, i),
                                           Load(d1.pBuffer, d1.BufferIdx))),
                              i - 1)
         IN  [pData |-> r.pData, output |-> r.output,
              oob |-> \/ r.oob
                      \/ ~InRange(d1.pWeights, i)
                      \/ ~InRange(d1.pBuffer, d1.BufferIdx)]
    ELSE [pData |-> pData, output |-> out, oob |-> FALSE]

\* mutant of Filter: the store of input does not advance BufferIdx
FilterNoAdvance(input, pData) ==
    LET d1 == WrapIndex(pData)
        inside == InRange(d1.pBuffer, d1.BufferIdx)
        d2 == [d1 EXCEPT !.pBuffer = Put(d1.pBuffer, d1.BufferIdx, input)]
        r  == FilterLoop(d2, Zero, d2.Length - 1)
    IN  [pData |-> r.pData, output |-> r.output, oob |-> ~inside \/ r.oob]

\* Filter: overwrite the oldest sample with input, then the inner product.
\* With Length = 0 the store pBuffer[0] = input has no element to go to.
Filter(input, pData) ==
    LET d1 == WrapIndex(pData)
        inside == InRange(d1.pBuffer, d1.BufferIdx)
        d2 == [d1 EXCEPT !.pBuffer = Put(d1.pBuffer, d1.BufferIdx, input),
                         !.BufferIdx = d1.BufferIdx + 1]
        r  == FilterLoop(d2, Zero, d2.Length - 1)
    IN  [pData |-> r.pData, output |-> r.output, oob |-> ~inside \/ r.oob]

\* mutant of AdaptiveFilterRun: the weights are adapted (with the previous
\* Error) before the input is filtered
AdaptiveFilterRunAdaptFirst(input, desired, pData) ==
    LET a  == AdaptWeights(pData)
        f  == Filter(input, a.pData)
    IN  [pData |-> [f.pData EXCEPT !.Error = Sub(desired, f.output)],
         output |-> f.output, oob |-> a.oob \/ f.oob]

AdaptiveFilterRun(input, desired, pData) ==
    LET f  == Filter(input, pData)
        d1 == [f.pData EXCEPT !.Error = Sub(desired, f.output)]
        a  == AdaptWeights(d1)
    IN  [pData |-> a.pData, output |-> f.output, oob |-> f.oob \/ a.oob]

\* mutant of AdaptiveFilterRunErrorIn: filter first, adapt second, as in
\* AdaptiveFilterRun
AdaptiveFilterRunErrorInFilterFirst(input, error, pData) ==
    LET f == Filter(input, [pData EXCEPT !.Error = error])
        a == AdaptWeights(f.pData)
    IN  [pData |-> a.pData, output |-> f.output, oob |-> f.oob \/ a.oob]

AdaptiveFilterRunErrorIn(input, error, pData) ==
    LET a == AdaptWeights([pData EXCEPT !.Error = error])
        f == Filter(input, a.pData)
    IN  [pData |-> f.pData, output |-> f.output, oob |-> a.oob \/ f.oob]

\* the pBuffer index that the next pass of the engine's loops (Filter's or
\* AdaptWeights') pairs with weight i: the loops run j = Length-1 .. 0, wrap,
\* then read pBuffer[BufferIdx++]
RECURSIVE PairedIndexFrom(_, _, _)
PairedIndexFrom(pData, j, i) ==
    LET d1 == WrapIndex(pData)
    IN  IF j = i THEN d1.BufferIdx
        ELSE PairedIndexFrom([d1 EXCEPT !.BufferIdx = d1.BufferIdx + 1], j - 1, i)

PairedIndex(pData, i) == PairedIndexFrom(pData, pData.Length - 1, i)

\* the history window as the engine reads it: element i is the sample paired
\* with weight i
EngineWindow(pData) ==
    [i \in 0..(pData.Length - 1) |-> At(pData.pBuffer, PairedIndex(pData, i))]

\* ------------------------------------------------ the Matlab prototype
\* A Matlab array: r rows, c columns, d its elements in column-major order.
\* NoValue stands for "no value": the expression raised an error.
Mat(r, c, d) == [r |-> r, c |-> c, d |-> d]
NoValue == Mat(-1, -1, <<>>)
Scalar(x) == Mat(1, 1, <<x>>)
Empty == Mat(0, 0, <<>>)   \* [], the default value of a property

numel(A) == A.r * A.c
isscalar(A) == A.r = 1 /\ A.c = 1
isvector(A) == A.r = 1 \/ A.c = 1
El(A, i, j) == A.d[(j - 1) * A.r + i]

\* the r-by-c array whose element (i, j) is f(i, j)
Build(r, c, f(_, _)) ==
    Mat(r, c, [k \in 1..(r * c) |-> f(((k - 1) % r) + 1, ((k - 1) \div r) + 1)])

\* zeros(size(A))
zeros(A) == Build(A.r, A.c, LAMBDA i, j : Zero)

\* A(:)
Colon(A) == Mat(numel(A), 1, A.d)

\* A.'
transpose(A) ==
    IF A = NoValue THEN NoValue
    ELSE Build(A.c, A.r, LAMBDA i, j : El(A, j, i))

\* A(1:end-1) for a vector A: a row (and a scalar, whose result takes the
\* shape of the 1-by-0 index) gives a row, a column gives a column
HeadOf(A) ==
    LET n == IF numel(A) >= 1 THEN numel(A) - 1 ELSE 0
        d == [k \in 1..n |-> A.d[k]]
    IN  IF A.r = 1 THEN Mat(1, n, d) ELSE Mat(n, 1, d)

\* [A; B]: empty operands are skipped, otherwise the column counts must agree
vertcat(A, B) ==
    IF A = NoValue \/ B = NoValue THEN NoValue
    ELSE IF numel(B) = 0 THEN A
    ELSE IF numel(A) = 0 THEN B
    ELSE IF A.c # B.c THEN NoValue
    ELSE Build(A.r + B.r, A.c,
               LAMBDA i, j : IF i <= A.r THEN El(A, i, j) ELSE El(B, i - A.r, j))

RECURSIVE RowTimesCol(_, _, _, _, _)
RowTimesCol(A, B, i, j, k) ==
    IF k = 0 THEN Zero
    ELSE Add(RowTimesCol(A, B, i, j, k - 1), Mul(El(A, i, k), El(B, k, j)))

\* A*B: a scalar operand scales the other one, otherwise the matrix product
\* (the order of the additions is immaterial in exact arithmetic)
mtimes(A, B) ==
    IF A = NoValue \/ B = NoValue THEN NoValue
    ELSE IF isscalar(A) THEN Build(B.r, B.c, LAMBDA i, j : Mul(A.d[1], El(B, i, j)))
    ELSE IF isscalar(B) THEN Build(A.r, A.c, LAMBDA i, j : Mul(El(A, i, j), B.d[1]))
    ELSE IF A.c # B.r THEN NoValue
    ELSE Build(A.r, B.c, LAMBDA i, j : RowTimesCol(A, B, i, j, A.c))

\* sizes that an element-wise binary operator accepts: equal, or one operand
\* scalar; from R2016b on also any pair where each dimension agrees or is 1
Compatible(A, B) ==
    \/ (A.r = B.r /\ A.c = B.c)
    \/ isscalar(A) \/ isscalar(B)
    \/ (implicitExpansion /\ (A.r = B.r \/ A.r = 1 \/ B.r = 1)
                          /\ (A.c = B.c \/ A.c = 1 \/ B.c = 1))

Expand(a, b) == IF a = b THEN a ELSE IF a = 1 THEN b ELSE a

Elementwise(A, B, op(_, _)) ==
    IF A = NoValue \/ B = NoValue THEN NoValue
    ELSE IF ~Compatible(A, B) THEN NoValue
    ELSE Build(Expand(A.r, B.r), Expand(A.c, B.c),
               LAMBDA i, j : op(El(A, IF A.r = 1 THEN 1 ELSE i, IF A.c = 1 THEN 1 ELSE j),
                                El(B, IF B.r = 1 THEN 1 ELSE i, IF B.c = 1 THEN 1 ELSE j)))

plus(A, B) == Elementwise(A, B, Add)
minus(A, B) == Elementwise(A, B, Sub)

RECURSIVE SumTo(_, _)
SumTo(d, k) == IF k = 0 THEN Zero ELSE Add(SumTo(d, k - 1), Mul(d[k], d[k]))

\* sum(A.^2) for a vector (or empty) A; Buffer is never a matrix
SumSquares(A) == SumTo(A.d, numel(A))

\* epsilon = 1e-10, in units of 1e-10
epsilon == One

NoObject == [Weights |-> NoValue, Buffer |-> NoValue, StepSize |-> NoValue,
             Error |-> NoValue]

\* the class constructor; StepSize is always passed as a scalar (1-by-1) here
AdaptiveFir(Weights, StepSize) ==
    IF ~isvector(Weights)
    THEN [AF |-> NoObject, threw |-> TRUE]
    ELSE [AF |-> [Weights |-> Colon(Weights), Buffer |-> zeros(Weights),
                  StepSize |-> StepSize, Error |-> Empty],
          threw |-> FALSE]

NLMS(AF) ==
    LET NormStepSize == Scalar(Div(AF.StepSize.d[1],
                                   Add(epsilon, SumSquares(AF.Buffer))))
        W == plus(AF.Weights,
                  mtimes(mtimes(NormStepSize, AF.Error), AF.Buffer))
    IN  IF W = NoValue THEN [AF |-> AF, threw |-> TRUE]
        ELSE [AF |-> [AF EXCEPT !.Weights = W], threw |-> FALSE]

RunFilter(AF, Input) ==
    LET B == vertcat(Scalar(Input), HeadOf(AF.Buffer))
    IN  IF B = NoValue THEN [AF |-> AF, Output |-> NoValue, threw |-> TRUE]
        ELSE LET a1 == [AF EXCEPT !.Buffer = B]
                 Output == mtimes(transpose(a1.Weights), a1.Buffer)
             IN  [AF |-> a1, Output |-> Output, threw |-> Output = NoValue]

Run(AF, Input, Desired) ==
    LET f == RunFilter(AF, Input)
    IN  IF f.threw THEN f
        ELSE LET a1 == [f.AF EXCEPT !.Error = minus(Scalar(Desired), f.Output)]
                 n  == NLMS(a1)
             IN  [AF |-> n.AF, Output |-> IF n.threw THEN NoValue ELSE f.Output,
                  threw |-> n.threw]

RunErrorInput(AF, Input, Error) ==
    LET n == NLMS([AF EXCEPT !.Error = Scalar(Error)])
    IN  IF n.threw THEN [AF |-> n.AF, Output |-> NoValue, threw |-> TRUE]
        ELSE RunFilter(n.AF, Input)

\* ------------------------------------------------------ configuration
\* what a caller may put into an AfData and hand to AdaptiveFir
Lengths == 0..MaxLen
StepSizes == {<<1, 2>>}
Regularizations == {Num(-1), Zero, One}
Inputs == {Zero, One}
Seconds == {Zero, One}     \* desired, or error, samples
Shapes == {"column", "row", "empty"}

\* the initial weights: weight i is i (so weight 0 is zero)
InitWeights(L) == [k \in 1..L |-> Num(k - 1)]

\* the Matlab array holding the same weights in the given shape
AsArray(w, shape) ==
    IF shape = "column" THEN Mat(Len(w), 1, w)
    ELSE IF shape = "row" THEN Mat(1, Len(w), w)
    ELSE Empty

Init ==
    \E L \in Lengths, mu \in StepSizes, reg \in Regularizations,
       shape \in Shapes, ie \in BOOLEAN :
      \E idx \in 0..(L + MaxOver) :
        /\ shape = "empty" => L = 0
        /\ Adata = [StepSize |-> mu, Regularization |-> reg, Length |-> L,
                    pBuffer |-> [k \in 1..L |-> Zero], BufferIdx |-> idx,
                    pWeights |-> InitWeights(L), Error |-> Zero]
        /\ output = Zero
        /\ oob = FALSE
        /\ trapped = FALSE
        /\ af = AdaptiveFir(AsArray(InitWeights(L), shape), Scalar(mu)).AF
        /\ mThrew = AdaptiveFir(AsArray(InitWeights(L), shape), Scalar(mu)).threw
        /\ mOutput = NoValue
        /\ implicitExpansion = ie
        /\ hist = <<>>
        /\ w0 = InitWeights(L)
        /\ idx0 = idx
        /\ last = [op |-> "none", input |-> Zero, second |-> Zero]

\* ------------------------------------------------------------ actions
\* the C call returns; a store outside pBuffer either went unnoticed or
\* terminated the process
CReturn(r) ==
    /\ Adata' = r.pData
    /\ output' = r.output
    /\ oob' = (oob \/ r.oob)
    /\ trapped' \in (IF r.oob THEN BOOLEAN ELSE {FALSE})

\* the Matlab call returns or raises; without an object there is no call
MReturn(r) ==
    /\ af' = r.AF
    /\ mOutput' = r.Output
    /\ mThrew' = r.threw

MNoCall == UNCHANGED <<af, mOutput, mThrew>>

Record(op, input, second) ==
    /\ hist' = <<input>> \o hist
    /\ last' = [op |-> op, input |-> input, second |-> second]
    /\ UNCHANGED <<w0, implicitExpansion, idx0>>

CallRun(input, desired) ==
    /\ ~trapped
    /\ Len(hist) < MaxCalls
    /\ CReturn(AdaptiveFilterRun(input, desired, Adata))
    /\ IF af = NoObject THEN MNoCall ELSE MReturn(Run(af, input, desired))
    /\ Record("Run", input, desired)

CallRunErrorIn(input, error) ==
    /\ ~trapped
    /\ Len(hist) < MaxCalls
    /\ CReturn(AdaptiveFilterRunErrorIn(input, error, Adata))
    /\ IF af = NoObject THEN MNoCall ELSE MReturn(RunErrorInput(af, input, error))
    /\ Record("RunErrorIn", input, error)

Next ==
    \E input \in Inputs, second \in Seconds :
        \/ CallRun(input, second)
        \/ CallRunErrorIn(input, second)

Spec == Init /\ [][Next]_vars

\* ------------------------------------------------------------- claims
\* The reference the claims are stated against: the logical window derived
\* from the inputs supplied so far, and the NLMS equations of the design.

\* the L most recent inputs, newest (index 0) to oldest, zero before any input
Window(h, L) == [i \in 0..(L - 1) |-> IF i < Len(h) THEN h[i + 1] ELSE Zero]

RECURSIVE DotTo(_, _, _)
DotTo(w, H, k) == IF k = 0 THEN Zero ELSE Add(DotTo(w, H, k - 1), Mul(w[k], H[k - 1]))

\* sum over i of w[i] * H[i], weight i being element i+1 of w
Dot(w, H) == DotTo(w, H, Len(w))

RECURSIVE EnergyTo(_, _)
EnergyTo(H, k) == IF k = 0 THEN Zero ELSE Add(EnergyTo(H, k - 1), Mul(H[k - 1], H[k - 1]))

NormStep(mu, reg, H, L) == Div(mu, Add(reg, EnergyTo(H, L)))

\* weights[i] += normStep * lastError * historyVector[i]
Updated(w, mu, reg, err, H) ==
    [k \in 1..Len(w) |-> Add(w[k], Mul(Mul(NormStep(mu, reg, H, Len(w)), err), H[k - 1]))]

ZeroInputs == \A k \in 1..Len(hist) : hist[k] = Zero
AllFinite(w) == \A k \in 1..Len(w) : IsFinite(w[k])

\* C1: for L >= 1 and a buffer that started zero-filled, after any mix of
\* calls the sample the engine pairs with weight i is the input supplied i
\* calls ago for i < min(N, L) and 0 for the remaining indices.
C1_HistoryWindow ==
    Adata.Length >= 1 =>
        EngineWindow(Adata) = Window(hist, Adata.Length)

\* a window of length 2 after 3 inputs 1, 0, 1: the oldest input was evicted
C1_Witness ==
    /\ Adata.Length = 2
    /\ hist = <<One, Zero, One>>
    /\ EngineWindow(Adata) = (0 :> One @@ 1 :> Zero)

\* C2: AdaptiveFilterRun(input, desired) returns the inner product of the
\* weights before the call with the window that includes input, sets Error to
\* desired - output, and then adapts the weights with that Error and window.
C2_RunFilterThenAdapt ==
    [][last'.op = "Run" =>
         LET H   == Window(hist', Adata.Length)
             out == Dot(Adata.pWeights, H)
             err == Sub(last'.second, out)
         IN  /\ output' = out
             /\ Adata'.Error = err
             /\ Adata'.pWeights = Updated(Adata.pWeights, Adata.StepSize,
                                          Adata.Regularization, err, H)]_vars

\* a Run call on at least 2 taps that produced a nonzero output and a nonzero
\* error and moved the weights
C2_Witness ==
    /\ last.op = "Run"
    /\ Adata.Length >= 2
    /\ Len(hist) >= 2
    /\ IsFinite(output) /\ output # Zero
    /\ IsFinite(Adata.Error) /\ Adata.Error # Zero
    /\ AllFinite(Adata.pWeights) /\ Adata.pWeights # w0

\* C3: AdaptiveFilterRunErrorIn(input, error) sets Error to error, adapts the
\* weights with the window as it was before input, inserts input, and returns
\* the inner product of the updated weights with the new window.
C3_ErrorInAdaptThenFilter ==
    [][last'.op = "RunErrorIn" =>
         LET w1 == Updated(Adata.pWeights, Adata.StepSize, Adata.Regularization,
                           last'.second, Window(hist, Adata.Length))
         IN  /\ Adata'.Error = last'.second
             /\ Adata'.pWeights = w1
             /\ output' = Dot(w1, Window(hist', Adata.Length))]_vars

\* a RunErrorIn call with a nonzero error on a nonzero previous window, which
\* moved the weights and returned a nonzero output
C3_Witness ==
    /\ last.op = "RunErrorIn"
    /\ Adata.Length >= 2
    /\ Len(hist) >= 2
    /\ hist[2] # Zero
    /\ last.second # Zero
    /\ IsFinite(output) /\ output # Zero
    /\ AllFinite(Adata.pWeights) /\ Adata.pWeights # w0

\* C4: each weight update, wherever the circular cursor stands, adds
\* normStep * Error * h[i] to every weight i, with
\* normStep = StepSize / (Regularization + energy) and energy the sum of the
\* squares of the same window h (the window including input for Run, the
\* previous window for RunErrorIn).
C4_NlmsUpdate ==
    [][hist' # hist =>
         LET L == Adata.Length
             H == IF last'.op = "Run" THEN Window(hist', L) ELSE Window(hist, L)
         IN  Adata'.pWeights = Updated(Adata.pWeights, Adata.StepSize,
                                       Adata.Regularization, Adata'.Error, H)]_vars

\* an update on 3 taps, the cursor in the middle of the buffer, that changed
\* the weights by finite nonzero amounts
C4_Witness ==
    /\ Adata.Length = 3
    /\ Adata.BufferIdx = 2
    /\ Len(hist) >= 2
    /\ Adata.Error # Zero
    /\ AllFinite(Adata.pWeights)
    /\ At(Adata.pWeights, 0) # At(w0, 0)
    /\ At(Adata.pWeights, 1) # At(w0, 1)

\* C5: if every input so far is exactly 0, the weights equal their initial
\* values, whatever desired / error values were supplied.
C5_ZeroSignalKeepsWeights ==
    ZeroInputs => Adata.pWeights = w0

\* C6: with Regularization = 0 and an all-zero window, a weight update leaves
\* every weight finite.
C6_NoNaNOnZeroEnergy ==
    (Adata.Regularization = Zero /\ ZeroInputs) => AllFinite(Adata.pWeights)

\* C7: no call ever executes on an engine with Length = 0 or
\* Regularization < 0.
C7_InvalidConfigNeverRuns ==
    Len(hist) > 0 => (Adata.Length >= 1 /\ Adata.Regularization[1] >= 0)

\* C8: for every accepted construction with L >= 1 weights, row or column,
\* the weights and the history window both have length L and the same shape,
\* after construction and after every call, and no call fails.
C8_DimensionInvariant ==
    (Adata.Length >= 1 /\ af # NoObject) =>
        /\ ~mThrew
        /\ Len(Adata.pWeights) = Adata.Length
        /\ Len(Adata.pBuffer) = Adata.Length
        /\ af.Weights.r = Adata.Length /\ af.Weights.c = 1
        /\ af.Buffer.r = af.Weights.r /\ af.Buffer.c = af.Weights.c

\* C10: driven by the same calls from the same weights, step size,
\* regularization 1e-10 and zero history, the C engine and the Matlab engine
\* return the same output and hold the same weights, Error and window.
C10_EnginesEquivalent ==
    (Adata.Length >= 1 /\ Adata.Regularization = epsilon /\ Len(hist) > 0) =>
        /\ ~mThrew
        /\ mOutput = Scalar(output)
        /\ af.Weights = Mat(Adata.Length, 1, Adata.pWeights)
        /\ af.Error = Scalar(Adata.Error)
        /\ af.Buffer.d = [k \in 1..Adata.Length |-> EngineWindow(Adata)[k - 1]]

\* C11: for L >= 1 and any initial BufferIdx, every access of pBuffer and of
\* pWeights made by a call uses an index in 0..L-1, and BufferIdx is in 1..L
\* when a call returns.
C11_MemorySafety ==
    Adata.Length >= 1 =>
        /\ ~oob
        /\ Len(hist) > 0 => Adata.BufferIdx \in 1..Adata.Length

\* calls on 2 taps or more that started with BufferIdx beyond the end of the
\* buffer and went around it
C11_Witness ==
    /\ Adata.Length >= 2
    /\ idx0 > Adata.Length
    /\ Len(hist) > Adata.Length
    /\ ~oob
    /\ Adata.BufferIdx \in 1..Adata.Length

====
